---- MODULE Spec2Model ----
(***************************************************************************)
(* Model of scripts/glm_cli.py: a prompt relay that reads a credential     *)
(* from the environment, reads a prompt from standard input, issues one    *)
(* streaming chat-completion request and relays the streamed text          *)
(* fragments to standard output.                                           *)
(*                                                                         *)
(* Text is a sequence of characters.  An optional value (Python None or a  *)
(* value) is a sequence of length 0 (None) or 1 (the value).               *)
(* Standard input is decoded text, and the errors of dispatch and relay    *)
(* are Exception instances (what create(), the stream iterator and the     *)
(* subscript choices[0] raise); signals such as KeyboardInterrupt are not  *)
(* inputs of the model.                                                    *)
(* The diagnostics are spelled in ASCII here; the script prints them with  *)
(* Polish diacritics.                                                      *)
(***************************************************************************)
EXTENDS Integers, Sequences, FiniteSets, TLC

\* ---- bounds of the model -------------------------------------------------
MaxLen == 2        \* longest standard-input text
MaxChunks == 2     \* most chunks delivered by a response stream

\* ---- input alphabets -----------------------------------------------------
Whitespace == {" ", "\n"}
Chars == Whitespace \cup {"a"}

SeqsUpTo(S, n) == UNION {[1..k -> S] : k \in 0..n}

None == <<>>
Some(v) == <<v>>

\* os.environ.get("ZHIPUAI_API_KEY"): unset, set to "", set to a key
EnvValues == {None, Some(<<>>), Some(<<"k">>)}

\* chunk.choices[0].delta.content of a well-formed chunk: None, "", or text
Contents == {None, Some(<<>>), Some(<<"a">>), Some(<<"b", "\n">>)}
\* a chunk whose choices list is empty makes choices[0] raise IndexError
MalformedChunk == [choices |-> 0, content |-> None]
Chunks == [choices : {1}, content : Contents] \cup {MalformedChunk}

\* where the remote service fails: nowhere, in create(), or while the
\* stream is iterated after it has delivered all of its chunks
Failures == {"none", "dispatch", "stream"}
ServiceErrorMsg == "Connection error."
IndexErrorMsg == "list index out of range"

\* ---- diagnostics and request constants ------------------------------------
MISSING_KEY_DIAG == <<"BLAD: Brak zmiennej srodowiskowej ZHIPUAI_API_KEY">>
EMPTY_PROMPT_DIAG == <<"BLAD: Pusty prompt">>
API_ERROR_PREFIX == "BLAD API GLM: "
ApiErrorDiag(msg) == <<API_ERROR_PREFIX, msg>>
MODEL_ID == "glm-4-plus"

VARIABLES
    env_key,        \* input: value of the credential environment variable
    stdin,          \* input: text available on standard input
    stream,         \* input: chunks the response stream delivers
    failure,        \* input: where the service raises
    pc,             \* position in the script
    api_key,        \* module global api_key
    prompt,         \* local prompt of main()
    stdinRead,      \* sys.stdin.read() has been called
    requests,       \* chat-completion requests issued so far
    handle,         \* response stream: "none", "open", "exhausted" (iterated
                    \* to its end), "failed" (its iteration raised),
                    \* "released" (closed; the script never closes it)
    pos,            \* number of chunks taken from the stream
    full_response,  \* local accumulator of main()
    outbuf,         \* text written to sys.stdout but not yet flushed
    stdout,         \* text observable on standard output
    stderr,         \* diagnostics on the error stream
    exitCode,       \* process exit status, None while running
    run,            \* which invocation this is (1 or 2)
    first           \* outcome of the first invocation, None until it ended

inputs == <<env_key, stdin, stream, failure>>
proc == <<pc, api_key, prompt, stdinRead, requests, handle, pos,
          full_response, outbuf, stdout, stderr, exitCode>>
vars == <<inputs, proc, run, first>>

\* ---- pure helpers ----------------------------------------------------------
\* Python truthiness of an optional string: None and "" are falsy
TruthyNotNone(opt) == opt # None

Truthy(opt) == opt # None /\ opt[1] # <<>>

\* str.strip(): drop leading and trailing whitespace
RECURSIVE LStrip(_)
LStrip(s) == IF s # <<>> /\ Head(s) \in Whitespace THEN LStrip(Tail(s)) ELSE s

RECURSIVE RStrip(_)
RStrip(s) == IF s # <<>> /\ s[Len(s)] \in Whitespace
             THEN RStrip(SubSeq(s, 1, Len(s) - 1)) ELSE s

Strip(s) == RStrip(LStrip(s))

\* the test of line 20: not prompt.strip()
IsBlankNoStrip(s) == s = <<>>

IsBlank(s) == Strip(s) = <<>>

\* the keyword arguments of client.chat.completions.create
RequestForStripped(p) ==
    [model |-> MODEL_ID, stream |-> TRUE,
     messages |-> <<[role |-> "user", content |-> Strip(p)]>>]

RequestFor(p) ==
    [model |-> MODEL_ID, stream |-> TRUE,
     messages |-> <<[role |-> "user", content |-> p]>>]

\* ---- output primitives -------------------------------------------------------
\* print(text, end=end, flush=flush) to sys.stdout
WriteOutNoFlush(text, end, flush) ==
    /\ outbuf' = outbuf \o text \o end
    /\ UNCHANGED stdout

WriteOutNoEnd(text, end, flush) ==
    IF flush
    THEN /\ stdout' = stdout \o outbuf \o text
         /\ outbuf' = <<>>
    ELSE /\ outbuf' = outbuf \o text
         /\ UNCHANGED stdout

WriteOut(text, end, flush) ==
    IF flush
    THEN /\ stdout' = stdout \o outbuf \o text \o end
         /\ outbuf' = <<>>
    ELSE /\ outbuf' = outbuf \o text \o end
         /\ UNCHANGED stdout

\* print(line, file=sys.stderr)
WriteErr(line) == stderr' = Append(stderr, line)

\* interpreter shutdown: buffered standard output is flushed, status is set
ProcessExitZero(code) ==
    /\ stdout' = stdout \o outbuf
    /\ outbuf' = <<>>
    /\ exitCode' = Some(0)
    /\ pc' = "exited"

ProcessExit(code) ==
    /\ stdout' = stdout \o outbuf
    /\ outbuf' = <<>>
    /\ exitCode' = Some(code)
    /\ pc' = "exited"

\* ---- the script ----------------------------------------------------------------
\* lines 7-14: read the credential, refuse to start without it, build client
LoadConfig ==
    /\ pc = "start"
    /\ api_key' = env_key
    /\ IF ~Truthy(env_key)
       THEN /\ WriteErr(MISSING_KEY_DIAG)
            /\ ProcessExit(1)
       ELSE /\ pc' = "main"
            /\ UNCHANGED <<stderr, stdout, outbuf, exitCode>>
    /\ UNCHANGED <<inputs, prompt, stdinRead, requests, handle, pos,
                   full_response, run, first>>

\* lines 18-22: read all of standard input, refuse a blank prompt
ReadPrompt ==
    /\ pc = "main"
    /\ prompt' = stdin
    /\ stdinRead' = TRUE
    /\ IF IsBlank(stdin)
       THEN /\ WriteErr(EMPTY_PROMPT_DIAG)
            /\ ProcessExit(1)
       ELSE /\ pc' = "dispatch"
            /\ UNCHANGED <<stderr, stdout, outbuf, exitCode>>
    /\ UNCHANGED <<inputs, api_key, requests, handle, pos, full_response,
                   run, first>>

\* lines 43-45: the except clause, which swallows the error instead
HandleErrorSwallow(msg) ==
    /\ WriteErr(ApiErrorDiag(msg))
    /\ ProcessExit(0)

\* lines 43-45: the except clause, which discards what was relayed
HandleErrorRollback(msg) ==
    /\ WriteErr(ApiErrorDiag(msg))
    /\ stdout' = <<>>
    /\ outbuf' = <<>>
    /\ exitCode' = Some(1)
    /\ pc' = "exited"

\* lines 43-45: the except clause
HandleError(msg) ==
    /\ WriteErr(ApiErrorDiag(msg))
    /\ ProcessExit(1)

\* lines 25-34: issue the streaming request, open the response stream
Dispatch ==
    /\ pc = "dispatch"
    /\ requests' = Append(requests, RequestFor(prompt))
    /\ IF failure = "dispatch"
       THEN /\ HandleError(ServiceErrorMsg)
            /\ UNCHANGED <<handle, full_response>>
       ELSE /\ handle' = "open"
            /\ full_response' = <<>>
            /\ pc' = "next_chunk"
            /\ UNCHANGED <<stderr, stdout, outbuf, exitCode>>
    /\ UNCHANGED <<inputs, api_key, prompt, stdinRead, pos, run, first>>

\* line 35: ask the stream for its next chunk
NextChunk ==
    /\ pc = "next_chunk"
    /\ IF pos < Len(stream)
       THEN /\ pos' = pos + 1
            /\ pc' = "relay"
            /\ UNCHANGED <<handle, stderr, stdout, outbuf, exitCode>>
       ELSE IF failure = "stream"
       THEN /\ handle' = "failed"
            /\ HandleError(ServiceErrorMsg)
            /\ UNCHANGED pos
       ELSE /\ handle' = "exhausted"
            /\ pc' = "newline"
            /\ UNCHANGED <<pos, stderr, stdout, outbuf, exitCode>>
    /\ UNCHANGED <<inputs, api_key, prompt, stdinRead, requests,
                   full_response, run, first>>

\* lines 36-39: extract the fragment of the chunk in hand and relay it;
\* with the chance of losing the write
RelayChunkLossy ==
    /\ pc = "relay"
    /\ LET chunk == stream[pos] IN
       IF chunk.choices = 0
       THEN /\ HandleError(IndexErrorMsg)
            /\ UNCHANGED full_response
       ELSE /\ IF Truthy(chunk.content)
               THEN /\ \/ WriteOut(chunk.content[1], <<>>, TRUE)
                       \/ UNCHANGED <<stdout, outbuf>>
                    /\ full_response' = full_response \o chunk.content[1]
               ELSE UNCHANGED <<stdout, outbuf, full_response>>
            /\ pc' = "next_chunk"
            /\ UNCHANGED <<stderr, exitCode>>
    /\ UNCHANGED <<inputs, api_key, prompt, stdinRead, requests, handle,
                   pos, run, first>>

\* lines 36-39: extract the fragment of the chunk in hand and relay it
RelayChunk ==
    /\ pc = "relay"
    /\ LET chunk == stream[pos] IN
       IF chunk.choices = 0
       THEN /\ HandleError(IndexErrorMsg)
            /\ UNCHANGED full_response
       ELSE /\ IF Truthy(chunk.content)
               THEN /\ WriteOut(chunk.content[1], <<>>, TRUE)
                    /\ full_response' = full_response \o chunk.content[1]
               ELSE UNCHANGED <<stdout, outbuf, full_response>>
            /\ pc' = "next_chunk"
            /\ UNCHANGED <<stderr, exitCode>>
    /\ UNCHANGED <<inputs, api_key, prompt, stdinRead, requests, handle,
                   pos, run, first>>

\* line 41: print() after the loop
TrailingNewline ==
    /\ pc = "newline"
    /\ WriteOut(<<>>, <<"\n">>, FALSE)
    /\ pc' = "returned"
    /\ UNCHANGED <<inputs, api_key, prompt, stdinRead, requests, handle,
                   pos, full_response, stderr, exitCode, run, first>>

\* lines 47-48: main() returned, the script ends
ExitNormally ==
    /\ pc = "returned"
    /\ ProcessExit(0)
    /\ UNCHANGED <<inputs, api_key, prompt, stdinRead, requests, handle,
                   pos, full_response, stderr, run, first>>

\* the state of a process that has just been started
FreshProcess ==
    /\ pc = "start"
    /\ api_key = None
    /\ prompt = <<>>
    /\ stdinRead = FALSE
    /\ requests = <<>>
    /\ handle = "none"
    /\ pos = 0
    /\ full_response = <<>>
    /\ outbuf = <<>>
    /\ stdout = <<>>
    /\ stderr = <<>>
    /\ exitCode = None

Outcome == [out |-> stdout, err |-> stderr, code |-> exitCode]

\* the script is invoked a second time with the same environment, the same
\* standard input and the same response stream
Rerun ==
    /\ pc = "exited"
    /\ run = 1
    /\ run' = 2
    /\ first' = Some(Outcome)
    /\ pc' = "start"
    /\ api_key' = None
    /\ prompt' = <<>>
    /\ stdinRead' = FALSE
    /\ requests' = <<>>
    /\ handle' = "none"
    /\ pos' = 0
    /\ full_response' = <<>>
    /\ outbuf' = <<>>
    /\ stdout' = <<>>
    /\ stderr' = <<>>
    /\ exitCode' = None
    /\ UNCHANGED inputs

Init ==
    /\ env_key \in EnvValues
    /\ stdin \in SeqsUpTo(Chars, MaxLen)
    /\ stream \in SeqsUpTo(Chunks, MaxChunks)
    /\ failure \in Failures
    /\ FreshProcess
    /\ run = 1
    /\ first = None

Next ==
    \/ LoadConfig
    \/ ReadPrompt
    \/ Dispatch
    \/ NextChunk
    \/ RelayChunk
    \/ TrailingNewline
    \/ ExitNormally

Spec == Init /\ [][Next]_vars

NextTwice ==
    \/ Next
    \/ Rerun

SpecTwice == Init /\ [][NextTwice]_vars

\* ---- vocabulary of the properties ---------------------------------------------
Exited == pc = "exited"

CredentialMissing == env_key = None \/ env_key = Some(<<>>)

PromptBlank == \A i \in 1..Len(stdin) : stdin[i] \in Whitespace

HasMalformed == \E i \in 1..Len(stream) : stream[i].choices = 0

\* number of chunks at the head of the stream that precede any malformed one
WellFormedPrefix ==
    IF HasMalformed
    THEN (CHOOSE i \in 1..Len(stream) :
             /\ stream[i].choices = 0
             /\ \A j \in 1..(i - 1) : stream[j].choices # 0) - 1
    ELSE Len(stream)

FragmentOf(chunk) == IF chunk.content = None THEN <<>> ELSE chunk.content[1]

RECURSIVE ConcatFragments(_)
ConcatFragments(chunks) ==
    IF chunks = <<>> THEN <<>>
    ELSE FragmentOf(Head(chunks)) \o ConcatFragments(Tail(chunks))

Relayable == ~CredentialMissing /\ ~PromptBlank

\* the error, if any, that the dispatch or the relay of this run raises
ApiFailureMsg ==
    IF failure = "dispatch" THEN Some(ServiceErrorMsg)
    ELSE IF HasMalformed THEN Some(IndexErrorMsg)
    ELSE IF failure = "stream" THEN Some(ServiceErrorMsg)
    ELSE None

Phase ==
    CASE pc = "start" -> "Start"
      [] pc = "main" -> "ConfigLoaded"
      [] pc = "dispatch" -> "PromptRead"
      [] pc \in {"next_chunk", "relay", "newline", "returned"} -> "Streaming"
      [] pc = "exited" /\ exitCode = Some(0) -> "Success"
      [] OTHER -> "Failed"

\* ---- properties ------------------------------------------------------------------

\* C1: when the credential is unset or empty the run goes from its start
\* straight to exit code 1 with the credential-missing diagnostic on the error
\* stream, issues no request and never reads standard input.
C1_MissingCredentialIsFatal ==
    CredentialMissing =>
        /\ pc \in {"start", "exited"}
        /\ requests = <<>>
        /\ ~stdinRead
        /\ Exited => exitCode = Some(1) /\ stderr = <<MISSING_KEY_DIAG>>

C1_Witness ==
    /\ env_key = Some(<<>>)
    /\ Exited
    /\ stderr = <<MISSING_KEY_DIAG>>

\* C2: with a credential present and a standard input that is empty or all
\* whitespace, the run ends with exit code 1 and the empty-prompt diagnostic,
\* writes nothing to standard output and issues no request.
C2_BlankPromptIsFatal ==
    (~CredentialMissing /\ PromptBlank) =>
        /\ pc \in {"start", "main", "exited"}
        /\ requests = <<>>
        /\ stdout = <<>> /\ outbuf = <<>>
        /\ Exited => exitCode = Some(1) /\ stderr = <<EMPTY_PROMPT_DIAG>>

C2_Witness ==
    /\ ~CredentialMissing
    /\ stdin = <<" ", "\n">>
    /\ Exited
    /\ stderr = <<EMPTY_PROMPT_DIAG>>

\* C3: when the stream ends without error, standard output at exit is the
\* fragments of all chunks concatenated in arrival order (absent and empty
\* fragments adding nothing) followed by exactly one newline, and the exit
\* code is 0.
C3_OutputIsConcatenation ==
    (Relayable /\ ApiFailureMsg = None /\ Exited) =>
        /\ stdout = ConcatFragments(stream) \o <<"\n">>
        /\ exitCode = Some(0)

C3_Witness ==
    /\ Exited
    /\ exitCode = Some(0)
    /\ Len(stream) = 2
    /\ stream[1].content = Some(<<"b", "\n">>)
    /\ stream[2].content \in {None, Some(<<>>)}
    /\ stdout = <<"b", "\n", "\n">>

\* C4: when dispatch or relay raises, before the first chunk or after any
\* number of chunks, the run ends with exit code 1 and exactly one
\* API-error diagnostic, and standard output is exactly the concatenation of
\* the fragments relayed before the failure.
C4_ApiErrorKeepsPartialOutput ==
    (Relayable /\ ApiFailureMsg # None /\ Exited) =>
        /\ exitCode = Some(1)
        /\ stderr = <<ApiErrorDiag(ApiFailureMsg[1])>>
        /\ stdout = IF failure = "dispatch" THEN <<>>
                    ELSE ConcatFragments(SubSeq(stream, 1, WellFormedPrefix))

C4_Witness ==
    /\ Exited
    /\ exitCode = Some(1)
    /\ failure = "stream"
    /\ pos = 2
    /\ stdout = <<"a", "b", "\n">>
    /\ stderr = <<ApiErrorDiag(ServiceErrorMsg)>>

\* C5: the error stream holds one diagnostic when the run failed and none
\* when it succeeded; the exit code is 1 exactly when a diagnostic was
\* written and 0 otherwise, whatever the failure category.
C5_OneDiagnosticIffExitOne ==
    /\ Len(stderr) <= 1
    /\ stderr # <<>> => Exited
    /\ Exited =>
        /\ exitCode \in {Some(0), Some(1)}
        /\ exitCode = Some(1) <=> Len(stderr) = 1
        /\ exitCode = Some(0) <=> stderr = <<>>
        /\ \A i \in 1..Len(stderr) :
              stderr[i] \in {MISSING_KEY_DIAG, EMPTY_PROMPT_DIAG,
                             ApiErrorDiag(ServiceErrorMsg),
                             ApiErrorDiag(IndexErrorMsg)}

C5_Witness ==
    /\ Exited
    /\ exitCode = Some(1)
    /\ HasMalformed
    /\ stderr = <<ApiErrorDiag(IndexErrorMsg)>>

\* C6: a run issues at most one request, and exactly one when the credential
\* is present and the prompt is not blank; the request names the fixed
\* model, has streaming enabled and carries one user message whose content
\* is the whole standard input, untrimmed.
C6_OneRequestWithRawPrompt ==
    /\ Len(requests) <= 1
    /\ \A i \in 1..Len(requests) :
          requests[i] = [model |-> "glm-4-plus", stream |-> TRUE,
                         messages |-> <<[role |-> "user", content |-> stdin]>>]
    /\ Exited => (Len(requests) = 1 <=> Relayable)

C6_Witness ==
    /\ Exited
    /\ stdin = <<" ", "a">>
    /\ failure = "dispatch"
    /\ Len(requests) = 1
    /\ requests[1].messages[1].content = <<" ", "a">>

\* C7: whenever the next chunk is about to be requested, every fragment of
\* the chunks taken so far is already observable on standard output and
\* nothing is held in the output buffer; while a chunk is in hand the
\* fragments of all earlier chunks are observable.
C7_FlushedBeforeNextChunk ==
    /\ pc = "next_chunk" =>
          outbuf = <<>> /\ stdout = ConcatFragments(SubSeq(stream, 1, pos))
    /\ pc = "relay" =>
          outbuf = <<>> /\ stdout = ConcatFragments(SubSeq(stream, 1, pos - 1))

C7_Witness ==
    /\ pc = "next_chunk"
    /\ pos = 1
    /\ Len(stream) = 2
    /\ stdout = <<"a">>

PhaseSuccessors ==
    [Start |-> {"ConfigLoaded", "Failed"},
     ConfigLoaded |-> {"PromptRead", "Failed"},
     PromptRead |-> {"Streaming", "Failed"},
     Streaming |-> {"Streaming", "Success", "Failed"},
     Success |-> {},
     Failed |-> {}]

PhaseStep ==
    /\ Phase' \in PhaseSuccessors[Phase]
    /\ Phase' = "Success" =>
          /\ Phase = "Streaming"
          /\ handle' = "exhausted"
          /\ pos' = Len(stream)
          /\ stderr' = <<>>

C9_PhaseOnlyMovesForward == [][PhaseStep]_vars

C9_Witness ==
    /\ Phase = "Failed"
    /\ handle = "open"
    /\ pos = 2

\* C10: at exit a response stream that was opened has been fully consumed
\* (iterated to its end, or ended by its own failure) or released.
C10_StreamSettledAtExit ==
    (Exited /\ handle # "none") => handle \in {"exhausted", "failed", "released"}
====
